---- MODULE Spec2Model ----
(***************************************************************************)
(* Model of the sunny-osprey event pipeline: the MQTT message handler of   *)
(* FrigateEventProcessor (mqtt_processor.py), the camera filter of         *)
(* SunnyOspreyConfig (config.py), the classifier and alert router of       *)
(* alert_manager.py and the chat-bot backend of telegram_alert.py.         *)
(*                                                                         *)
(* One message is handled at a time (paho's loop_forever calls the         *)
(* callback synchronously); pc is the position of that single thread.      *)
(***************************************************************************)
EXTENDS Integers, Sequences, FiniteSets, TLC

\* ------------------------------------------------------------------ bounds

\* Messages delivered to _on_message in one run of the model.
MaxMessages == 2

\* ------------------------------------------------------- python values

\* Python's None / a missing dict key, for string-valued fields.
NONE == "<None>"

\* bool(s) for a string-or-None field: None and "" are falsy.
Truthy(s) == s # NONE /\ s # ""

\* Paths are <<directory, file number>>; NoPath is None.
NoPath == <<"", 0>>
TestDir == "/app/test_videos/"
TmpDir == "/tmp/"
FixtureInTestDir == <<TestDir, 1>>
FixtureElsewhere == <<"/data/clips/", 1>>
FixtureMissing == <<TestDir, 2>>

\* str.startswith on a path, for a directory prefix.
PathStartsWith(p, dir) == p[1] = dir

\* str.startswith('test_') on an event id.
\* The prefix test of line 193 never matching.
IsTestId_never(id) == FALSE

IsTestId(id) == id \in {"test_evt"}

\* Raw values an LLM result may carry under a key, tagged by python type.
Absent == [t |-> "absent", b |-> FALSE, s |-> "", n |-> 0]
PyBool(x) == [t |-> "bool", b |-> x, s |-> "", n |-> 0]
PyStr(x) == [t |-> "str", b |-> FALSE, s |-> x, n |-> 0]
PyInt(x) == [t |-> "int", b |-> FALSE, s |-> "", n |-> x]
PyList(len) == [t |-> "list", b |-> FALSE, s |-> "", n |-> len]
\* A key present with the value None; a float (n = 0 is 0.0); a dict.
PyNone == [t |-> "none", b |-> FALSE, s |-> "", n |-> 0]
PyFloat(x) == [t |-> "float", b |-> FALSE, s |-> "", n |-> x]
PyDict(len) == [t |-> "dict", b |-> FALSE, s |-> "", n |-> len]

\* bool(v) of a raw value; dict.get of a missing key yields None (falsy).
PyTruthy(v) ==
    CASE v.t = "absent" -> FALSE
      [] v.t = "bool" -> v.b
      [] v.t = "str" -> v.s # ""
      [] v.t = "int" -> v.n # 0
      [] v.t = "float" -> v.n # 0
      [] v.t = "list" -> v.n # 0
      [] v.t = "dict" -> v.n # 0
      [] OTHER -> FALSE

\* A faulty variant of `or`: the right operand is taken only when the left
\* one is None.
PyOr_none_only(a, b) == IF a.t \notin {"absent", "none"} THEN a ELSE b

\* A faulty variant of `or`: the right operand is preferred.
PyOr_prefers_right(a, b) == IF PyTruthy(b) THEN b ELSE a

\* a or b
PyOr(a, b) == IF PyTruthy(a) THEN a ELSE b

\* str.lower on the strings of the model.
Lower(s) ==
    CASE s = "YES" -> "yes"
      [] s = "Yes" -> "yes"
      [] s = "True" -> "true"
      [] s = "TRUE" -> "true"
      [] s = "NO" -> "no"
      [] OTHER -> s

\* ------------------------------------------------------------ classifier

\* A faulty variant of is_suspicious_activity_detected: only the new key is
\* read and any non-empty value counts.
is_suspicious_truthiness(llm_result) == PyTruthy(llm_result.suspicious)

\* alert_manager.is_suspicious_activity_detected
is_suspicious_activity_detected(llm_result) ==
    LET value == PyOr(llm_result.suspicious, llm_result.legacy)
    IN  CASE value.t \in {"absent", "none"} -> FALSE
          [] value.t = "bool" -> value.b
          [] value.t = "str" -> Lower(value.s) \in {"yes", "true", "1"}
          [] value.t \in {"int", "float"} -> value.n # 0
          [] OTHER -> FALSE

\* The raw values the classifier is tried on, under either key.
RawValues ==
    {Absent, PyNone, PyBool(TRUE), PyBool(FALSE)}
    \cup {PyStr(x) : x \in {"yes", "YES", "Yes", "true", "TRUE", "1", "no",
                             "false", "maybe", ""}}
    \cup {PyInt(0), PyInt(1), PyInt(2), PyFloat(0), PyFloat(1)}
    \cup {PyList(0), PyList(1), PyDict(0), PyDict(1)}

\* --------------------------------------------------------------- results

\* What run_inference hands back: None, or a dict.  A dict is modelled by the
\* keys the pipeline reads; error = TRUE is a dict carrying the 'error' key.
NoResult ==
    [kind |-> "None", error |-> FALSE, suspicious |-> Absent, legacy |-> Absent,
     description |-> NONE, video_path |-> NoPath]

ResultDict(err, susp, leg, desc) ==
    [kind |-> "dict", error |-> err, suspicious |-> susp, legacy |-> leg,
     description |-> desc, video_path |-> NoPath]

EmptyDict == ResultDict(FALSE, Absent, Absent, NONE)
ErrorResult == ResultDict(TRUE, Absent, Absent, NONE)

SuspiciousValues == {Absent, PyBool(TRUE), PyBool(FALSE), PyStr("YES"), PyStr("no")}
LegacyValues == {Absent, PyStr("yes")}
Descriptions == {NONE, "person at gate"}

NormalResults ==
    {ResultDict(FALSE, s, l, d) : s \in SuspiciousValues, l \in LegacyValues,
                                  d \in Descriptions}

\* The test of line 158 letting every result through.
ResultTruthy_always(r) == TRUE

\* bool(result): None and the empty dict are falsy.
ResultTruthy(r) ==
    /\ r.kind = "dict"
    /\ \/ r.error
       \/ r.suspicious # Absent
       \/ r.legacy # Absent
       \/ r.description # NONE
       \/ r.video_path # NoPath

\* Outcomes of self.llm_engine.run_inference(video_path) as the pipeline sees
\* them: a returned value, or an exception reaching the caller.
InferenceOutcomes ==
    [raises : {FALSE}, value : NormalResults \cup {NoResult, ErrorResult}]
    \cup [raises : {TRUE}, value : {NoResult}]

\* ---------------------------------------------------------------- config

Cameras == {"LPR", "BACKYARD"}

\* cameras.enabled_cameras of the configuration file: the camera allow-list.
AllowLists == {{}, {"LPR"}}

\* SunnyOspreyConfig.should_process_camera with the membership test inverted
\* away: every camera is accepted.
should_process_camera_any(camera_name, enabled) == TRUE

\* SunnyOspreyConfig.should_process_camera without the test of line 163.
should_process_camera_strict(camera_name, enabled) == camera_name \in enabled

\* SunnyOspreyConfig.should_process_camera
should_process_camera(camera_name, enabled) ==
    IF enabled = {} THEN TRUE ELSE camera_name \in enabled

\* SunnyOspreyConfig.should_skip_event without the truth test of line 181.
should_skip_event_strict(camera_name, enabled) ==
    ~should_process_camera(camera_name, enabled)

\* SunnyOspreyConfig.should_skip_event, on the 'camera' value of its argument
should_skip_event(camera_name, enabled) ==
    Truthy(camera_name) /\ ~should_process_camera(camera_name, enabled)

\* -------------------------------------------------------------- payloads

\* event_data['after']: absent, JSON null, a non-object (a string) or an
\* object holding some of id, camera, video_path.
NoAfter == [shape |-> "absent", id |-> NONE, camera |-> NONE, video_path |-> NoPath]
AfterValues ==
    [shape : {"absent", "null", "str"}, id : {NONE}, camera : {NONE},
     video_path : {NoPath}]
    \cup [shape : {"dict"}, id : {NONE, "", "evt"}, camera : Cameras \cup {NONE, ""},
          video_path : {NoPath}]
    \cup [shape : {"dict"}, id : {"test_evt"}, camera : Cameras,
          video_path : {NoPath, FixtureInTestDir, FixtureElsewhere, FixtureMissing}]

\* event_data['before']: absent, JSON null, or an object with a camera.
NoBefore == [shape |-> "absent", camera |-> NONE]
BeforeValues ==
    {NoBefore, [shape |-> "null", camera |-> NONE],
     [shape |-> "dict", camera |-> "BACKYARD"]}

\* msg.payload: bytes that are no JSON, JSON that is no object, or an object.
\* 'before' is varied where 'after' carries no camera key.
MalformedPayload == [kind |-> "malformed", type |-> NONE, after |-> NoAfter, before |-> NoBefore]
NonObjectPayload == [kind |-> "nondict", type |-> NONE, after |-> NoAfter, before |-> NoBefore]
Payloads ==
    {MalformedPayload, NonObjectPayload}
    \cup UNION {[kind : {"dict"}, type : {"end"}, after : {a},
                  before : IF a.camera = NONE THEN BeforeValues ELSE {NoBefore}] :
                 a \in AfterValues}
    \cup [kind : {"dict"}, type : {"start", "update", NONE},
          after : {a \in AfterValues : a.id = "evt" /\ a.camera = "LPR"},
          before : {NoBefore}]

\* bool(event_data['after']) / bool(event_data['before'])
AfterTruthy(a) ==
    \/ a.shape = "str"
    \/ a.shape = "dict" /\ (a.id # NONE \/ a.camera # NONE \/ a.video_path # NoPath)
BeforeTruthy(b) == b.shape = "dict" /\ b.camera # NONE

\* ---------------------------------------------------------------- filter

\* _should_process_event lines 135-138 returning False from the except clause.
FilterFaultResult_closed == FALSE

\* _should_process_event lines 135-138: what the except clause returns.
FilterFaultResult == TRUE

\* FrigateEventProcessor._should_process_event: ret is the value returned,
\* fault says the except clause of line 135 produced it.
should_process_event(event_data, enabled) ==
    LET a == event_data.after
        b == event_data.before
    IN  IF AfterTruthy(a) /\ a.shape = "str"
        THEN [ret |-> FilterFaultResult, fault |-> TRUE]   \* str has no .get
        ELSE
          LET camera_name ==
                  IF AfterTruthy(a) THEN a.camera
                  ELSE IF BeforeTruthy(b) THEN b.camera
                  ELSE NONE
          IN  IF Truthy(camera_name) /\ ~should_process_camera(camera_name, enabled)
              THEN [ret |-> FALSE, fault |-> FALSE]
              ELSE
                \* event_data.get('after', {}) or event_data.get('before', {})
                IF AfterTruthy(a)
                THEN [ret |-> ~should_skip_event(a.camera, enabled), fault |-> FALSE]
                ELSE IF b.shape = "null"
                THEN [ret |-> FilterFaultResult, fault |-> TRUE]   \* None has no .get
                ELSE [ret |-> ~should_skip_event(b.camera, enabled), fault |-> FALSE]

\* The camera name the filter extracted (lines 114-118), NONE when the
\* extraction found none or faulted.
ExtractedCamera(event_data) ==
    LET a == event_data.after
        b == event_data.before
    IN  IF AfterTruthy(a) THEN (IF a.shape = "str" THEN NONE ELSE a.camera)
        ELSE IF BeforeTruthy(b) THEN b.camera
        ELSE NONE

\* ----------------------------------------------------------------- state

VARIABLES
    enabled_cameras,      \* config: cameras.enabled_cameras
    send_all_activities,  \* config: alerts.send_all_activities
    alert_backend,        \* AlertManager.alert_backend, "unconstructed" when
                          \* AlertManager.__init__ raised
    env_backend,          \* os.getenv('ALERT_BACKEND', 'telegram').lower()
    telegram_token,       \* TelegramAlert.telegram_token
    telegram_chat_id,     \* TelegramAlert.telegram_chat_id
    grafana,              \* GrafanaIRMAlert: host, username, password
    enabled,              \* the backend's enabled flag
    fs,                   \* the paths that exist on disk
    pc,                   \* position of the message-handling thread
    delivered,            \* messages delivered so far
    event_data,           \* the payload being handled
    event_id,             \* local of _process_end_event
    video_path,           \* local of _process_end_event
    attempt,              \* loop variable of _download_video_clip
    result,               \* local of _process_end_event
    is_suspicious,        \* local of _process_end_event (line 164)
    incident,             \* incident_data handed to the backend, if any
    incident_sent,        \* local of _process_end_event (line 170)
    backend_ret,          \* what the backend's send_incident returned, if called
    upload_outs,          \* what each send_video call of the upload did, if any
    calls,                \* per message: how often each operation ran
    clip,                 \* per message: how the clip was obtained, and its path
    outcome,              \* per message: how the handler returned
    prev_faulted,         \* the message before this one ended in a caught fault
    posted,               \* the create-incident request last POSTed, and its answer
    main_pc,              \* position of run_mqtt_processor's loop
    pending,              \* "break" while the finally clause runs on the way out
    sessions,             \* how each processor.start() call ended, in order
    starts,               \* processor.start() calls
    slept,                \* seconds run_mqtt_processor spent in time.sleep
    stops,                \* processor.stop() calls
    subscribed,           \* the session's client has subscribed to frigate/events
    ready,                \* /shared/ready has been written
    last_connect,         \* the last _on_connect call: its rc and what it did
    model,                \* LLMInferenceEngine.model
    processor,            \* LLMInferenceEngine.processor
    loads,                \* from_pretrained calls that returned, per attribute
    inference,            \* the last run_inference call: its setting and outcome
    engine_calls          \* calls made on the engine so far

config == <<enabled_cameras, send_all_activities, alert_backend, env_backend,
            telegram_token, telegram_chat_id, grafana, enabled>>
transport == <<main_pc, pending, sessions, starts, slept, stops, subscribed, ready,
               last_connect>>
engine == <<model, processor, loads, inference, engine_calls>>
elsewhere == <<transport, engine>>
locals == <<event_id, video_path, attempt, result, is_suspicious, incident,
            incident_sent, backend_ret,
            upload_outs>>
vars == <<enabled_cameras, send_all_activities, alert_backend, env_backend,
          telegram_token, telegram_chat_id, grafana, enabled, fs, pc,
          delivered, event_data, event_id, video_path, attempt, result,
          is_suspicious, incident, incident_sent, backend_ret, upload_outs,
          calls, clip, outcome,
          prev_faulted, posted, main_pc, pending, sessions, starts, slept, stops,
          subscribed, ready, last_connect, model, processor, loads, inference,
          engine_calls>>

NoCalls ==
    [filter |-> 0, fetch |-> 0, get |-> 0, empty |-> 0, sleep |-> 0, slept |-> 0,
     infer |-> 0,
     classify |-> 0, route |-> 0, send |-> 0, text |-> 0, upload |-> 0,
     waited |-> 0, post |-> 0, remove |-> 0]

\* No upload was made.
NoOuts == << >>

NoClip == [origin |-> "none", path |-> NoPath, content |-> ""]

NoIncident ==
    [event_id |-> NONE, description |-> NONE, is_suspicious |-> FALSE,
     llm_result |-> NoResult]

Bump(field) == [calls EXCEPT ![field] = @ + 1]

\* AlertManager.__init__: the backend ALERT_BACKEND selects.  GrafanaIRMAlert
\* takes no constructor argument, so the call of line 67 raises TypeError.
AlertManagerInit(backend) ==
    IF backend = "telegram" THEN "telegram" ELSE "unconstructed"

\* TelegramAlert._validate_config with the chat id left unchecked.
validate_config_token_only(token, chat_id) == Truthy(token)

\* TelegramAlert._validate_config
validate_config(token, chat_id) ==
    Truthy(token) /\ Truthy(chat_id)

\* TelegramAlert.__init__ lines 10-15: the token and chat id come from the
\* config mapping when it is non-empty (a missing key reads as ''), and from
\* the environment otherwise.
NoTelegramConfig == [given |-> FALSE, bot_token |-> NONE, chat_id |-> NONE]
TelegramConfigs ==
    {NoTelegramConfig}
    \cup [given : {TRUE}, bot_token : {NONE, "token"}, chat_id : {NONE, "chat"}]
TelegramEnvs == [TELEGRAM_BOT_TOKEN : {NONE, "token"}, TELEGRAM_CHAT_ID : {NONE, "chat"}]
TelegramAlertInit(telegram_config, env) ==
    IF telegram_config.given
    THEN [telegram_token |-> IF telegram_config.bot_token = NONE
                             THEN "" ELSE telegram_config.bot_token,
          telegram_chat_id |-> IF telegram_config.chat_id = NONE
                               THEN "" ELSE telegram_config.chat_id]
    ELSE [telegram_token |-> env.TELEGRAM_BOT_TOKEN,
          telegram_chat_id |-> env.TELEGRAM_CHAT_ID]

\* GrafanaIRMAlert.__init__ lines 10-12: the three required settings, read
\* from the environment.
NoGrafana == [host |-> NONE, username |-> NONE, password |-> NONE]
GrafanaEnvs ==
    [host : {NONE, "https://irm"}, username : {NONE, "admin"},
     password : {NONE, "secret"}]

\* GrafanaIRMAlert._validate_config
grafana_validate_config(g) ==
    {v \in {g.host, g.username, g.password} : ~Truthy(v)} = {}

\* No create-incident request was made.
NoPayload ==
    [title |-> NONE, description |-> NONE, severity |-> NONE, status |-> NONE,
     isDrill |-> FALSE, roomPrefix |-> NONE, attachCaption |-> NONE]
NoHttp == [raises |-> FALSE, status |-> 0, json |-> FALSE]
NoPost == [made |-> FALSE, payload |-> NoPayload, http |-> NoHttp]

\* No run_inference call was made.
NoSetting ==
    [model_load |-> TRUE, processor_load |-> TRUE, frames |-> "some",
     prompt |-> TRUE, system_prompt |-> TRUE, generate |-> TRUE,
     response |-> "object"]
NoInference == [called |-> FALSE, setting |-> NoSetting, ret |-> "not_called"]

\* The transport session of a running service: run_mqtt_processor is inside
\* its first processor.start() call, the broker accepted the connection and
\* _on_connect subscribed and wrote the sentinel.
SessionRunning ==
    /\ main_pc = "session"
    /\ pending = "none"
    /\ sessions = << >>
    /\ starts = 1
    /\ slept = 0
    /\ stops = 0
    /\ subscribed = TRUE
    /\ ready = TRUE
    /\ last_connect = [n |-> 1, rc |-> 0, ops |-> <<"subscribe", "ready">>]

\* The engine of a running service: run_mqtt_processor loaded the model at
\* startup (main.py line 38).
EngineLoaded ==
    /\ model = "loaded"
    /\ processor = "loaded"
    /\ loads = [model |-> 1, processor |-> 1]
    /\ inference = NoInference
    /\ engine_calls = 0

Init ==
    /\ enabled_cameras \in AllowLists
    /\ send_all_activities \in BOOLEAN
    /\ env_backend \in {"telegram", "grafana"}
    /\ alert_backend = AlertManagerInit(env_backend)
    /\ telegram_token \in {NONE, "token"}
    /\ telegram_chat_id = "chat"
    /\ grafana = NoGrafana
    /\ enabled = validate_config(telegram_token, telegram_chat_id)
    /\ fs = {FixtureInTestDir, FixtureElsewhere}
    /\ pc = "idle"
    /\ delivered = 0
    /\ event_data = MalformedPayload
    /\ event_id = NONE
    /\ video_path = NoPath
    /\ attempt = 0
    /\ result = NoResult
    /\ is_suspicious = FALSE
    /\ incident = NoIncident
    /\ incident_sent = FALSE
    /\ calls = NoCalls
    /\ backend_ret = "not_called"
    /\ upload_outs = NoOuts
    /\ clip = NoClip
    /\ outcome = "none"
    /\ prev_faulted = FALSE
    /\ posted = NoPost
    /\ SessionRunning
    /\ EngineLoaded

\* The handler returns to the subscription loop.
Return(how) ==
    /\ pc' = "idle"
    /\ outcome' = how

\* An exception leaves _on_message: the subscription loop ends.
Propagate ==
    /\ pc' = "crashed"
    /\ outcome' = "propagated"

\* --------------------------------------------------------------- handler

\* _on_message with the second except clause (line 99) missing.
on_message_catches_json_only(exc) == exc = "JSONDecodeError"

\* The except clauses of _on_message (lines 97-100): json.JSONDecodeError,
\* then Exception.
on_message_catches(exc) == exc \in {"JSONDecodeError", "AttributeError", "Exception"}

\* A faulty variant of the type test of line 88: every event that is no
\* "start" gets through.
IsEndEvent_not_start(payload) == payload.type # "start"

\* _on_message line 88: only "end" events are processed.
IsEndEvent(payload) == payload.type = "end"

\* The ways a handler ends after catching an exception (lines 97, 99, 186
\* and 181).
FaultOutcomes == {"parse_error", "payload_error", "exception", "remove_failed"}

\* A callback that is entered while the one before it is still running.
HandlerFree_reentrant == pc # "crashed"

\* start() lines 254-255: loop_forever runs the network loop in the calling
\* thread and calls _on_message from it, one message after the other; the
\* next message is taken when the callback has returned.
HandlerFree == pc = "idle"

\* _on_message up to the dispatch of line 90: parse, log the type, keep only
\* 'end' events.
OnMessage(msg) ==
    /\ HandlerFree
    /\ alert_backend # "unconstructed"
    /\ delivered < MaxMessages
    /\ delivered' = delivered + 1
    /\ event_data' = msg
    /\ event_id' = NONE
    /\ video_path' = NoPath
    /\ attempt' = 0
    /\ result' = NoResult
    /\ is_suspicious' = FALSE
    /\ incident' = NoIncident
    /\ incident_sent' = FALSE
    /\ calls' = NoCalls
    /\ backend_ret' = "not_called"
    /\ upload_outs' = NoOuts
    /\ clip' = NoClip
    /\ prev_faulted' = (outcome \in FaultOutcomes)
    /\ UNCHANGED <<config, posted, elsewhere, fs>>
    /\ CASE msg.kind = "malformed" ->
              IF on_message_catches("JSONDecodeError")
              THEN Return("parse_error") ELSE Propagate
         [] msg.kind = "nondict" ->
              IF on_message_catches("AttributeError")
              THEN Return("payload_error") ELSE Propagate
         [] ~IsEndEvent(msg) -> Return("non_end")
         [] OTHER -> pc' = "should_process" /\ outcome' = "none"

\* _on_message lines 90-93 with _should_process_event (lines 102-138).
ShouldProcessEvent ==
    /\ pc = "should_process"
    /\ calls' = Bump("filter")
    /\ IF should_process_event(event_data, enabled_cameras).ret
       THEN pc' = "process_end_event" /\ outcome' = "none"
       ELSE Return("filtered")
    /\ UNCHANGED <<config, posted, elsewhere, fs, delivered, event_data, locals, clip, prev_faulted>>

\* The except clause of _process_end_event (line 186): Exception.
process_end_event_catches(exc) ==
    exc \in {"AttributeError", "RuntimeError", "Exception"}

\* The test of line 145 rejecting only a missing id.
HasEventId_not_none(id) == id # NONE

\* _process_end_event line 145: the id is there and not empty.
HasEventId(id) == Truthy(id)

\* _process_end_event lines 142-149: the event id.  'after' that is null or
\* no object makes .get raise; the except clause of line 186 ends the event.
ProcessEndEvent ==
    /\ pc = "process_end_event"
    /\ LET a == event_data.after
       IN  CASE a.shape \in {"null", "str"} ->
                   /\ event_id' = NONE
                   /\ IF process_end_event_catches("AttributeError")
                      THEN Return("exception") ELSE Propagate
             [] a.shape = "absent" \/ ~HasEventId(a.id) ->
                   Return("no_event_id") /\ event_id' = NONE
             [] OTHER ->
                   pc' = "download" /\ outcome' = "none" /\ event_id' = a.id
    /\ UNCHANGED <<config, posted, elsewhere, fs, delivered, event_data, video_path, attempt, result,
                   is_suspicious, incident, incident_sent, backend_ret, upload_outs,
                   calls, clip,
                   prev_faulted>>

\* ----------------------------------------------------------------- fetch

\* tempfile.NamedTemporaryFile(delete=False): a name no existing file has.
RECURSIVE FreeTemp(_, _)
FreeTemp(files, k) == IF <<TmpDir, k>> \in files THEN FreeTemp(files, k + 1) ELSE <<TmpDir, k>>
\* A temporary file that always gets the same name.
NewTemp_fixed(files) == <<TmpDir, 1>>

NewTemp(files) == FreeTemp(files, 1)

\* What one requests.get of the download loop can do.
AttemptOutcomes == {"request_exception", "error_status", "zero_bytes", "non_empty"}

\* response.content of an attempt that got a response (line 218).
ResponseContent(o) == IF o = "non_empty" THEN "mp4 bytes" ELSE ""

\* A wait that grows with the pass.
Backoff_growing(n) == 3 * (n + 1)

\* time.sleep(3) of lines 230 and 239: the seconds waited after pass n.
Backoff(n) == 3

\* _download_video_clip lines 193-205: the event id has the test prefix and
\* the path comes from the payload.
\* _process_end_event line 153 with the test dropped: the handler goes on
\* whatever the fetch returned.
SkipsEvent_never(p) == FALSE

\* _process_end_event lines 153-154: the handler returns when the fetch gave
\* no path.
SkipsEvent(p) == p = NoPath

\* The handler after a fetch that returned None.
AfterFetchFailed ==
    IF SkipsEvent(NoPath)
    THEN Return("fetch_failed")
    ELSE pc' = "inference" /\ outcome' = "none"

DownloadTest ==
    /\ pc = "download"
    /\ IsTestId(event_id)
    /\ calls' = Bump("fetch")
    /\ LET p == event_data.after.video_path
       IN  IF p # NoPath /\ p \in fs
           THEN /\ video_path' = p
                /\ clip' = [origin |-> "bypass", path |-> p, content |-> "fixture"]
                /\ pc' = "inference"
                /\ outcome' = "none"
           ELSE /\ video_path' = NoPath
                /\ clip' = clip
                /\ AfterFetchFailed
    /\ UNCHANGED <<config, posted, elsewhere, fs, delivered, event_data, event_id, attempt, result,
                   is_suspicious, incident, incident_sent, backend_ret, upload_outs,
                   prev_faulted>>

\* The zero-byte file left where it was written (line 226 missing).
AfterEmptyDownload_keep(files) == files \cup {NewTemp(files)}

\* The files on disk after an attempt that downloaded zero bytes: the file
\* is written (line 217) and removed again (line 226).
AfterEmptyDownload(files) == (files \cup {NewTemp(files)}) \ {NewTemp(files)}

\* The loop making one pass more.
DownloadAttempts_four == 3 + 1

\* _download_video_clip line 211: range(3).
DownloadAttempts == 3

\* The loop giving up one pass early.
IsLastAttempt_early(n) == n = DownloadAttempts - 2

\* The last pass of the loop returns None (lines 227-229, 237-238).
IsLastAttempt(n) == n = DownloadAttempts - 1

\* One pass of the download loop, lines 211-239: the GET, the file, the size
\* check, and either the return or the wait before the next pass.
DownloadAttempt(o) ==
    /\ pc = "download"
    /\ ~IsTestId(event_id)
    /\ attempt < DownloadAttempts
    /\ calls' = [calls EXCEPT !.get = @ + 1,
                              !.empty = IF o = "zero_bytes" THEN @ + 1 ELSE @,
                              !.fetch = IF attempt = 0 THEN @ + 1 ELSE @,
                              !.sleep = IF o # "non_empty" /\ ~IsLastAttempt(attempt)
                                        THEN @ + 1 ELSE @,
                              !.slept = IF o # "non_empty" /\ ~IsLastAttempt(attempt)
                                        THEN @ + Backoff(attempt) ELSE @]
    /\ IF o = "non_empty"
       THEN /\ fs' = fs \cup {NewTemp(fs)}
            /\ video_path' = NewTemp(fs)
            /\ clip' = [origin |-> "download", path |-> NewTemp(fs),
                        content |-> ResponseContent(o)]
            /\ attempt' = attempt
            /\ pc' = "inference"
            /\ outcome' = "none"
       ELSE /\ fs' = IF o = "zero_bytes" THEN AfterEmptyDownload(fs) ELSE fs
            /\ video_path' = NoPath
            /\ clip' = clip
            /\ IF IsLastAttempt(attempt)
               THEN attempt' = attempt /\ AfterFetchFailed
               ELSE attempt' = attempt + 1 /\ pc' = "download" /\ outcome' = "none"
    /\ UNCHANGED <<config, posted, elsewhere, delivered, event_data, event_id, result, is_suspicious,
                   incident, incident_sent, backend_ret, upload_outs,
                   prev_faulted>>

\* ------------------------------------------------------ inference, alert

\* _process_end_event lines 157-160: the inference call, and the branch on
\* the truth value of what it returned.  An exception is caught at line 186.
RunInference(o) ==
    /\ pc = "inference"
    /\ calls' = Bump("infer")
    /\ IF o.raises
       THEN /\ result' = result
            /\ IF process_end_event_catches("RuntimeError")
               THEN Return("exception") ELSE Propagate
       ELSE IF ResultTruthy(o.value)
       THEN /\ result' = [o.value EXCEPT !.video_path = video_path]
            /\ pc' = "classify"
            /\ outcome' = "none"
       ELSE /\ result' = o.value
            /\ pc' = "cleanup"
            /\ outcome' = "none"
    /\ UNCHANGED <<config, posted, elsewhere, fs, delivered, event_data, event_id, video_path, attempt,
                   is_suspicious, incident, incident_sent, backend_ret, upload_outs,
                   clip,
                   prev_faulted>>

\* _process_end_event lines 164-168: the pipeline's own call of the classifier.
Classify ==
    /\ pc = "classify"
    /\ calls' = Bump("classify")
    /\ is_suspicious' = is_suspicious_activity_detected(result)
    /\ pc' = "send_incident"
    /\ UNCHANGED <<config, posted, elsewhere, fs, delivered, event_data, event_id, video_path, attempt,
                   result, incident, incident_sent, backend_ret, upload_outs,
                   clip, outcome,
                   prev_faulted>>

\* The banners of _prepare_incident_data (lines 80, 83), without the emoji.
Banner(suspicious) == IF suspicious THEN "SECURITY ALERT" ELSE "NORMAL ACTIVITY"

\* AlertManager._prepare_incident_data with the banner chosen from the raw
\* 'suspicious' value alone instead of the classifier's verdict.
prepare_incident_data_raw(id, llm_result) ==
    LET description == IF llm_result.description = NONE
                       THEN "No description available" ELSE llm_result.description
        suspicious == is_suspicious_truthiness(llm_result)
    IN  [event_id |-> id,
         description |-> Banner(suspicious) \o "\n" \o description,
         is_suspicious |-> suspicious,
         llm_result |-> llm_result]

\* AlertManager._prepare_incident_data
prepare_incident_data(id, llm_result) ==
    LET description == IF llm_result.description = NONE
                       THEN "No description available" ELSE llm_result.description
        suspicious == is_suspicious_activity_detected(llm_result)
    IN  [event_id |-> id,
         description |-> Banner(suspicious) \o "\n" \o description,
         is_suspicious |-> suspicious,
         llm_result |-> llm_result]

\* AlertManager.send_incident lines 100-106 with the suppression dropped.
ShouldDispatch_always(incident_data, send_all) == TRUE

\* AlertManager.send_incident lines 100-106 with the flag ignored.
ShouldDispatch_suspicious_only(incident_data, send_all) == incident_data.is_suspicious

\* AlertManager.send_incident lines 100-106: the incident is handed to the
\* backend when it is suspicious or every activity is to be sent.
ShouldDispatch(incident_data, send_all) ==
    ~(~incident_data.is_suspicious /\ ~send_all)

\* TelegramAlert._send_telegram_video: range(3) and asyncio.sleep(2).
UploadAttempts == 3
UploadBackoff == 2

\* What the send_video calls of one upload may do, one entry per attempt:
\* TRUE when the call returns, FALSE when it raises.
AllUploadOutcomes == [1..UploadAttempts -> BOOLEAN]

\* The same for the pipeline: a service that came back stays back.
UploadOutcomes ==
    {outs \in AllUploadOutcomes :
        \A i \in 1..UploadAttempts, j \in 1..UploadAttempts :
            (outs[i] /\ i < j) => outs[j]}

\* TelegramAlert._send_telegram_video line 48 with the test one attempt early.
IsLastUpload_early(n) == n = 1

\* TelegramAlert._send_telegram_video line 48
IsLastUpload(n) == n = 2

\* TelegramAlert._send_telegram_video from attempt n on: what the coroutine
\* does ("True", "False" or "raise"), the send_video calls made and the
\* seconds slept.
RECURSIVE send_telegram_video_from(_, _)
send_telegram_video_from(outs, n) ==
    IF n >= UploadAttempts THEN [ret |-> "False", uploads |-> 0, waited |-> 0]
    ELSE IF outs[n + 1] THEN [ret |-> "True", uploads |-> 1, waited |-> 0]
    ELSE IF IsLastUpload(n) THEN [ret |-> "raise", uploads |-> 1, waited |-> 0]
    ELSE LET rest == send_telegram_video_from(outs, n + 1)
         IN  [ret |-> rest.ret, uploads |-> rest.uploads + 1,
              waited |-> rest.waited + UploadBackoff]

send_telegram_video(outs) == send_telegram_video_from(outs, 0)

\* TelegramAlert.send_incident with the enabled flag ignored.
telegram_send_incident_unguarded(incident_data, is_enabled, files, outs) ==
    LET sent == send_telegram_video(outs)
    IN  IF incident_data.llm_result.video_path # NoPath
           /\ incident_data.llm_result.video_path \in files
        THEN [ret |-> IF sent.ret = "True" THEN "True" ELSE "False", texts |-> 0,
              uploads |-> sent.uploads, waited |-> sent.waited, posts |-> 0]
        ELSE [ret |-> "True", texts |-> 0, uploads |-> 0, waited |-> 0, posts |-> 0]

\* TelegramAlert.send_incident without the except clause of line 78: the
\* exception of the upload leaves send_incident.
telegram_send_incident_uncaught(incident_data, is_enabled, files, outs) ==
    LET sent == send_telegram_video(outs)
    IN  IF ~is_enabled
        THEN [ret |-> "False", texts |-> 0, uploads |-> 0, waited |-> 0, posts |-> 0]
        ELSE IF incident_data.llm_result.video_path # NoPath
                /\ incident_data.llm_result.video_path \in files
        THEN [ret |-> IF sent.ret = "raise" THEN "raise" ELSE "True", texts |-> 0,
              uploads |-> sent.uploads, waited |-> sent.waited, posts |-> 0]
        ELSE [ret |-> "True", texts |-> 0, uploads |-> 0, waited |-> 0, posts |-> 0]

\* TelegramAlert.send_incident: what it returns and the network operations
\* it made ("True", "False", or "raise" were an exception to leave it).  A
\* disabled backend returns False.  An enabled one sends no text
\* (lines 69-71 are commented out), uploads the clip when its path exists on
\* disk, and returns True; an exception out of the upload is caught at line
\* 78 and turns into False.
telegram_send_incident(incident_data, is_enabled, files, outs) ==
    LET sent == send_telegram_video(outs)
    IN  IF ~is_enabled
        THEN [ret |-> "False", texts |-> 0, uploads |-> 0, waited |-> 0, posts |-> 0]
        ELSE IF incident_data.llm_result.video_path # NoPath
                /\ incident_data.llm_result.video_path \in files
        THEN [ret |-> IF sent.ret = "raise" THEN "False" ELSE "True", texts |-> 0,
              uploads |-> sent.uploads, waited |-> sent.waited, posts |-> 0]
        ELSE [ret |-> "True", texts |-> 0, uploads |-> 0, waited |-> 0, posts |-> 0]

\* What the POST of _create_irm_incident may do: raise (a transport
\* failure), or answer with a status code and a body that is a JSON object
\* or is not.
HttpOutcomes ==
    [raises : {FALSE}, status : {200, 201, 204, 500}, json : BOOLEAN]
    \cup {[raises |-> TRUE, status |-> 0, json |-> FALSE]}

\* GrafanaIRMAlert._create_irm_incident with every 2xx status accepted.
create_irm_incident_any_2xx(http) ==
    ~http.raises /\ http.status \in 200..299 /\ http.json

\* GrafanaIRMAlert._create_irm_incident: True for status 200 or 201 whose
\* body response.json().get reads; any other status is False, and so is an
\* exception of the POST or of reading the body (line 72).
create_irm_incident(http) ==
    ~http.raises /\ http.status \in {200, 201} /\ http.json

\* GrafanaIRMAlert._prepare_grafana_payload lines 35-36: the limit on the
\* description placed in the title, and what is kept of a longer one.
TitleLimit == 100
TitleKeep == 97

\* Lines 35-36 with the first TitleLimit characters kept before the marker.
TitleDescription_keeps_limit(llm_description) ==
    IF Len(llm_description) > TitleLimit
    THEN SubSeq(llm_description, 1, TitleLimit) \o "..."
    ELSE llm_description

\* GrafanaIRMAlert._prepare_grafana_payload lines 34-36
TitleDescription(llm_description) ==
    IF Len(llm_description) > TitleLimit
    THEN SubSeq(llm_description, 1, TitleKeep) \o "..."
    ELSE llm_description

\* The title of lines 40 and 44 around the description.
TitlePrefix(suspicious) ==
    IF suspicious THEN "Security Alert: " ELSE "NORMAL ACTIVITY: "
TitleSuffix(id) == " - Event " \o id

\* GrafanaIRMAlert._prepare_grafana_payload (attachURL left out: the clip's
\* URL plays no part in any step modelled).
prepare_grafana_payload(incident_data) ==
    [title |-> TitlePrefix(incident_data.is_suspicious)
                  \o TitleDescription(incident_data.description)
                  \o TitleSuffix(incident_data.event_id),
     description |-> incident_data.description,
     severity |-> IF incident_data.is_suspicious THEN "critical" ELSE "info",
     status |-> "active",
     isDrill |-> FALSE,
     roomPrefix |-> IF incident_data.is_suspicious
                    THEN "security-alert" ELSE "normal-activity",
     attachCaption |-> incident_data.description]

\* GrafanaIRMAlert.send_incident: a disabled backend returns False without
\* a POST; an enabled one makes one POST and returns what
\* _create_irm_incident returns.
grafana_send_incident(incident_data, is_enabled, http) ==
    IF ~is_enabled
    THEN [ret |-> "False", texts |-> 0, uploads |-> 0, waited |-> 0, posts |-> 0]
    ELSE [ret |-> IF create_irm_incident(http) THEN "True" ELSE "False",
          texts |-> 0, uploads |-> 0, waited |-> 0, posts |-> 1]

\* The backend's network operations added to the per-message counts.
CountSend(sent) ==
    [calls EXCEPT !.send = @ + 1, !.text = @ + sent.texts,
                  !.upload = @ + sent.uploads, !.waited = @ + sent.waited,
                  !.post = @ + sent.posts]

\* GrafanaIRMAlert._prepare_grafana_payload lines 38-46: the severity.
grafana_severity(incident_data) ==
    IF incident_data.is_suspicious THEN "critical" ELSE "info"

\* _process_end_event lines 170-174 with AlertManager.send_incident
\* (lines 96-114) and the backend's send_incident.  An exception that left
\* the backend would pass through the router to the except clause of line
\* 186, past the cleanup.
SendIncident(outs) ==
    /\ pc = "send_incident"
    /\ LET incident_data == prepare_incident_data(event_id, result)
           sent == telegram_send_incident(incident_data, enabled, fs, outs)
       IN  IF ShouldDispatch(incident_data, send_all_activities)
           THEN /\ incident' = incident_data
                /\ backend_ret' = sent.ret
                /\ upload_outs' = IF sent.uploads > 0 THEN outs ELSE NoOuts
                /\ calls' = [CountSend(sent) EXCEPT !.route = @ + 1]
                /\ IF sent.ret = "raise"
                   THEN /\ IF process_end_event_catches("Exception")
                           THEN Return("exception") ELSE Propagate
                        /\ UNCHANGED incident_sent
                   ELSE /\ incident_sent' = (sent.ret = "True")
                        /\ pc' = "cleanup"
                        /\ UNCHANGED outcome
           ELSE /\ incident' = NoIncident
                /\ backend_ret' = "not_called"
                /\ upload_outs' = NoOuts
                /\ incident_sent' = TRUE
                /\ calls' = Bump("route")
                /\ pc' = "cleanup"
                /\ UNCHANGED outcome
    /\ UNCHANGED <<config, posted, elsewhere, fs, delivered, event_data, event_id,
                   video_path, attempt, result, is_suspicious, clip, prev_faulted>>

\* --------------------------------------------------------------- cleanup

\* _process_end_event line 177: the clip is kept when its path starts with
\* the test directory.
KeepsClip(p) == PathStartsWith(p, TestDir)

\* _process_end_event lines 176-184.  os.remove may fail; the failure is
\* logged (line 182) and the handler returns.
Cleanup(remove_ok) ==
    /\ pc = "cleanup"
    /\ IF KeepsClip(video_path)
       THEN /\ fs' = fs
            /\ calls' = calls
            /\ Return("completed")
       ELSE /\ calls' = Bump("remove")
            /\ IF remove_ok
               THEN fs' = fs \ {video_path} /\ Return("completed")
               ELSE fs' = fs /\ Return("remove_failed")
    /\ UNCHANGED <<config, posted, elsewhere, delivered, event_data, locals, clip, prev_faulted>>

\* ------------------------------------------------------------------ spec

Next ==
    \/ \E msg \in Payloads : OnMessage(msg)
    \/ ShouldProcessEvent
    \/ ProcessEndEvent
    \/ DownloadTest
    \/ \E o \in AttemptOutcomes : DownloadAttempt(o)
    \/ \E o \in InferenceOutcomes : RunInference(o)
    \/ Classify
    \/ \E outs \in UploadOutcomes : SendIncident(outs)
    \/ \E remove_ok \in BOOLEAN : Cleanup(remove_ok)

Spec == Init /\ [][Next]_vars

\* ---------------------------------------------------------------- claims

\* The handler has returned to the subscription loop after a message.
Returned == pc = "idle" /\ delivered > 0

\* The payload being handled is an "end" event (a JSON object of that type).
IsEnd == event_data.kind = "dict" /\ event_data.type = "end"

\* C1: a clip that came from a successful network download is gone from the
\* disk when the handler has returned, on every exit path (inference
\* returning a result, null or an error result, or raising; dispatch
\* returning true or false), unless os.remove itself failed.
C1_EphemeralClipDeletedOnReturn ==
    (Returned /\ clip.origin = "download" /\ outcome # "remove_failed")
        => clip.path \notin fs

\* C2: a result carrying the 'error' key is neither classified nor routed,
\* and nothing is sent for it.
C2_ErrorResultNotClassifiedNorRouted ==
    result.error => (calls.classify = 0 /\ calls.route = 0 /\ calls.send = 0)

\* C3: a clip taken from the payload of a test-prefixed event is never
\* deleted: once obtained it stays on disk.
C3_BypassClipNeverDeleted ==
    clip.origin = "bypass" => clip.path \in fs

\* C4: with a non-empty allow-list, an "end" event whose extracted camera is
\* not on the list causes no clip fetch, no GET, no inference and no backend
\* send, and the handler ends it as filtered; an event whose extracted camera
\* is on the list passes the filter.
C4_AllowListEnforced ==
    LET camera_name == ExtractedCamera(event_data)
    IN  (IsEnd /\ enabled_cameras # {} /\ Truthy(camera_name)) =>
          /\ camera_name \notin enabled_cameras =>
                /\ calls.fetch = 0 /\ calls.get = 0 /\ calls.infer = 0
                /\ calls.route = 0 /\ calls.send = 0
                /\ pc \in {"should_process", "idle"}
                /\ calls.filter = 1 => outcome = "filtered"
          /\ (camera_name \in enabled_cameras /\ calls.filter = 1) =>
                outcome # "filtered"

C4_Witness ==
    /\ Returned /\ IsEnd /\ outcome = "filtered" /\ calls.filter = 1
    /\ enabled_cameras = {"LPR"}
    /\ ExtractedCamera(event_data) = "BACKYARD"
    /\ event_data.after.id = "evt"

\* C5: a network fetch issues between 1 and 3 GETs; it stops at the first
\* non-empty download (the GETs are the failed passes plus that one); when
\* every pass fails it has issued exactly 3 and returns no clip.
C5_FetchAttemptsBounded ==
    /\ calls.get <= 3
    /\ calls.fetch <= 1
    /\ (pc = "download" /\ ~IsTestId(event_id)) =>
          (calls.get = attempt /\ calls.get < 3 /\ clip = NoClip)
    /\ clip.origin = "download" =>
          (calls.get >= 1 /\ calls.get = attempt + 1 /\ video_path = clip.path)
    /\ (outcome = "fetch_failed" /\ ~IsTestId(event_id)) =>
          (calls.get = 3 /\ video_path = NoPath /\ clip = NoClip /\ calls.infer = 0)

C5_Witness ==
    /\ Returned /\ outcome = "fetch_failed" /\ event_id = "evt"
    /\ calls.get = 3 /\ video_path = NoPath

\* C6: when the classifier's verdict on the result is normal and
\* send_all_activities is false, the router returns true and the backend's
\* send_incident is not called.
C6_NormalActivitySuppressed ==
    (calls.route = 1 /\ ~is_suspicious_activity_detected(result)
       /\ ~send_all_activities)
        => (incident_sent = TRUE /\ calls.send = 0 /\ backend_ret = "not_called")

C6_Witness ==
    /\ pc = "cleanup" /\ calls.route = 1 /\ ~send_all_activities
    /\ result.suspicious = PyBool(FALSE) /\ ~result.error
    /\ calls.send = 0 /\ incident_sent

\* C7: when the verdict is suspicious (either value of the flag), or normal
\* with send_all_activities true, one router call calls the backend's
\* send_incident exactly once and returns what the backend returned.
C7_SuspiciousDispatchedOnce ==
    (calls.route = 1 /\ (is_suspicious_activity_detected(result) \/ send_all_activities))
        => /\ calls.send = 1
           /\ backend_ret \in {"True", "False"}
           /\ incident_sent = (backend_ret = "True")

C7_Witness ==
    /\ pc = "cleanup" /\ calls.route = 1 /\ calls.send = 1
    /\ is_suspicious_activity_detected(result) /\ ~send_all_activities
    /\ backend_ret = "False" /\ ~incident_sent /\ enabled

\* C8: no fault leaves the message handler: the thread is never outside the
\* handler's steps, a message that ended in a caught fault leaves the
\* handler idle with the locals of the next call fresh, and the next
\* message is accepted whatever it is.
C8_FaultsStayInsideHandler ==
    /\ pc # "crashed"
    /\ outcome # "propagated"
    /\ (pc = "idle" /\ outcome \in FaultOutcomes /\ delivered < MaxMessages) =>
          ENABLED (\E msg \in Payloads : OnMessage(msg))
    /\ (prev_faulted /\ pc = "should_process") =>
          (calls = NoCalls /\ result = NoResult /\ clip = NoClip
             /\ video_path = NoPath /\ incident = NoIncident)

C8_Witness ==
    /\ prev_faulted /\ delivered = 2 /\ Returned /\ outcome = "completed"
    /\ calls.send = 1 /\ incident_sent

\* C9: a message whose type is not "end" triggers no filter evaluation, no
\* fetch, no inference, no classification and no routing; only "end"
\* messages get past the type check.
C9_OnlyEndEventsProcessed ==
    /\ (event_data.kind = "dict" /\ event_data.type # "end" /\ delivered > 0) =>
          (calls = NoCalls /\ pc = "idle" /\ outcome = "non_end")
    /\ (calls # NoCalls \/ pc \notin {"idle", "crashed"}) => IsEnd

C9_Witness ==
    /\ Returned /\ outcome = "non_end" /\ event_data.type = "update"
    /\ event_data.after.id = "evt" /\ calls = NoCalls

\* C10: the incident handed to the backend for a non-error result has its
\* suspicious flag equal to the classifier's verdict on the result, and its
\* description is the banner of that verdict, a newline, and the result's
\* description (the placeholder when it has none); the pipeline's own
\* branch and the severity a backend derives agree with the verdict.
C10_IncidentAgreesWithClassifier ==
    (calls.send = 1 /\ ~result.error) =>
        LET verdict == is_suspicious_activity_detected(result)
            text == IF result.description = NONE
                    THEN "No description available" ELSE result.description
        IN  /\ incident.is_suspicious = verdict
            /\ incident.description =
                  (IF verdict THEN "SECURITY ALERT" ELSE "NORMAL ACTIVITY") \o "\n" \o text
            /\ is_suspicious = verdict
            /\ (grafana_severity(incident) = "critical") = verdict
            /\ incident.event_id = event_id
            /\ incident.llm_result = result

C10_Witness ==
    /\ calls.send = 1 /\ ~result.error /\ ~send_all_activities
    /\ result.suspicious = PyStr("YES")
    /\ result.description = "person at gate"
    /\ incident.description = "SECURITY ALERT\nperson at gate"

\* ------------------------------------------------- classifier on its own

\* The results the classifier is applied to: every pair of raw values under
\* the two keys.
ClassifierInputs ==
    {[kind |-> "dict", error |-> FALSE, suspicious |-> v, legacy |-> w,
      description |-> NONE, video_path |-> NoPath] : v \in RawValues, w \in RawValues}

\* The pipeline stands at line 164 with one of these results in hand.
ClassifierInit ==
    /\ result \in ClassifierInputs
    /\ pc = "classify"
    /\ enabled_cameras = {}
    /\ send_all_activities = FALSE
    /\ env_backend = "telegram"
    /\ alert_backend = AlertManagerInit("telegram")
    /\ telegram_token = "token"
    /\ telegram_chat_id = "chat"
    /\ grafana = NoGrafana
    /\ enabled = validate_config("token", "chat")
    /\ fs = {FixtureInTestDir}
    /\ delivered = 1
    /\ event_data = [kind |-> "dict", type |-> "end",
                     after |-> [shape |-> "dict", id |-> "test_evt", camera |-> "LPR",
                                video_path |-> FixtureInTestDir],
                     before |-> NoBefore]
    /\ event_id = "test_evt"
    /\ video_path = FixtureInTestDir
    /\ attempt = 0
    /\ is_suspicious = FALSE
    /\ incident = NoIncident
    /\ incident_sent = FALSE
    /\ backend_ret = "not_called"
    /\ upload_outs = NoOuts
    /\ calls = [NoCalls EXCEPT !.filter = 1, !.fetch = 1, !.infer = 1]
    /\ clip = [origin |-> "bypass", path |-> FixtureInTestDir, content |-> "fixture"]
    /\ outcome = "none"
    /\ prev_faulted = FALSE
    /\ posted = NoPost
    /\ SessionRunning
    /\ EngineLoaded

SpecClassifier == ClassifierInit /\ [][Classify]_vars

\* The classifier has run on result.
Classified == calls.classify = 1

\* The normalization by type of one raw value (lines 34-50), case by case.
Normalized(v) ==
    CASE v.t = "bool" -> v.b
      [] v.t = "str" -> Lower(v.s) \in {"yes", "true", "1"}
      [] v.t \in {"int", "float"} -> v.n # 0
      [] v.t \in {"list", "dict", "none", "absent"} -> FALSE

\* C11: when one key alone carries a value, the verdict is that value
\* normalized by type: a boolean is itself, a string is true exactly when
\* its lower-cased form is "yes", "true" or "1", a number exactly when it is
\* non-zero, and a list, a mapping, null or nothing is false.
C11_NormalizedByType ==
    Classified =>
        /\ result.legacy = Absent => is_suspicious = Normalized(result.suspicious)
        /\ result.suspicious = Absent => is_suspicious = Normalized(result.legacy)

C11_Witness ==
    /\ Classified /\ result.suspicious = PyStr("YES") /\ result.legacy = Absent
    /\ is_suspicious

BothKeys == result.suspicious # Absent /\ result.legacy # Absent

MaxSends == 2

\* A description of n characters.
Tens == "0123456789"
RECURSIVE Filler(_)
Filler(n) == IF n <= 10 THEN SubSeq(Tens, 1, n) ELSE Tens \o Filler(n - 10)

\* The descriptions of the model's answers: a short one, and ones that the
\* banner brings to just below, to and just above the title's limit.
BackendDescriptions == {"person at gate", Filler(84), Filler(85), Filler(86)}

\* The incidents handed to a backend: suspicious and normal, with a clip path
\* that exists on disk, one that does not, and none.
BackendIncidents ==
    {prepare_incident_data("evt", [ResultDict(FALSE, v, Absent, d)
                                       EXCEPT !.video_path = p]) :
        v \in {PyBool(TRUE), PyBool(FALSE)},
        p \in {NoPath, FixtureInTestDir, FixtureMissing},
        d \in BackendDescriptions}

\* One backend, constructed from its configuration: TelegramAlert(config)
\* or GrafanaIRMAlert().
BackendInit ==
    /\ alert_backend \in {"telegram", "grafana"}
    /\ env_backend = alert_backend
    /\ IF alert_backend = "telegram"
       THEN /\ \E telegram_config \in TelegramConfigs, env \in TelegramEnvs :
                 LET self == TelegramAlertInit(telegram_config, env)
                 IN  /\ telegram_token = self.telegram_token
                     /\ telegram_chat_id = self.telegram_chat_id
            /\ grafana = NoGrafana
            /\ enabled = validate_config(telegram_token, telegram_chat_id)
       ELSE /\ telegram_token = NONE
            /\ telegram_chat_id = NONE
            /\ grafana \in GrafanaEnvs
            /\ enabled = grafana_validate_config(grafana)
    /\ enabled_cameras = {}
    /\ send_all_activities = FALSE
    /\ fs = {FixtureInTestDir}
    /\ pc = "backend"
    /\ delivered = 0
    /\ event_data = MalformedPayload
    /\ event_id = NONE
    /\ video_path = NoPath
    /\ attempt = 0
    /\ result = NoResult
    /\ is_suspicious = FALSE
    /\ incident = NoIncident
    /\ incident_sent = FALSE
    /\ backend_ret = "not_called"
    /\ upload_outs = NoOuts
    /\ calls = NoCalls
    /\ clip = NoClip
    /\ outcome = "none"
    /\ prev_faulted = FALSE
    /\ posted = NoPost
    /\ SessionRunning
    /\ EngineLoaded

\* The backend's send_incident was called with incident_data and returned.
BackendReturns(incident_data, sent) ==
    /\ delivered' = delivered + 1
    /\ incident' = incident_data
    /\ backend_ret' = sent.ret
    /\ calls' = [NoCalls EXCEPT !.send = 1, !.text = sent.texts,
                                !.upload = sent.uploads, !.waited = sent.waited,
                                !.post = sent.posts]
    /\ UNCHANGED <<config, elsewhere, fs, pc, event_data, event_id, video_path, attempt, result,
                   is_suspicious, incident_sent, clip, outcome, prev_faulted>>

\* TelegramAlert.send_incident
TelegramSend(incident_data, outs) ==
    /\ pc = "backend"
    /\ alert_backend = "telegram"
    /\ delivered < MaxSends
    /\ LET sent == telegram_send_incident(incident_data, enabled, fs, outs)
       IN  /\ upload_outs' = IF sent.uploads > 0 THEN outs ELSE NoOuts
           /\ posted' = NoPost
           /\ BackendReturns(incident_data, sent)

\* GrafanaIRMAlert.send_incident
GrafanaSend(incident_data, http) ==
    /\ pc = "backend"
    /\ alert_backend = "grafana"
    /\ delivered < MaxSends
    /\ upload_outs' = NoOuts
    /\ LET sent == grafana_send_incident(incident_data, enabled, http)
       IN  /\ posted' = IF sent.posts > 0
                        THEN [made |-> TRUE,
                              payload |-> prepare_grafana_payload(incident_data),
                              http |-> http]
                        ELSE NoPost
           /\ BackendReturns(incident_data, sent)

BackendNext ==
    \/ \E incident_data \in BackendIncidents, outs \in AllUploadOutcomes :
          TelegramSend(incident_data, outs)
    \/ \E incident_data \in BackendIncidents, http \in HttpOutcomes :
          GrafanaSend(incident_data, http)

SpecBackend == BackendInit /\ [][BackendNext]_vars

\* The backend has none of the settings it requires.
MissingConfiguration ==
    IF alert_backend = "telegram"
    THEN ~Truthy(telegram_token) \/ ~Truthy(telegram_chat_id)
    ELSE ~Truthy(grafana.host) \/ ~Truthy(grafana.username) \/ ~Truthy(grafana.password)

\* C15: a backend constructed with a required setting missing (chat-bot: the
\* token or the chat id; incident management: host, username or password) is
\* disabled, and every send on it returns False with no text, upload or POST.
C15_UnconfiguredBackendSendsNothing ==
    MissingConfiguration =>
        /\ ~enabled
        /\ delivered > 0 => backend_ret = "False"
        /\ calls.text = 0 /\ calls.upload = 0 /\ calls.post = 0

C15_Witness ==
    /\ alert_backend = "telegram" /\ telegram_token = "token" /\ telegram_chat_id = ""
    /\ delivered = 2 /\ backend_ret = "False"
    /\ incident.llm_result.video_path = FixtureInTestDir

\* C16: for each of the two selections of ALERT_BACKEND the router is
\* constructed and holds a backend of the selected kind.
C16_SelectedBackendBound == alert_backend = env_backend

\* The clip of the incident last sent exists on disk.
IncidentClipExists ==
    /\ incident.llm_result.video_path # NoPath
    /\ incident.llm_result.video_path \in fs

\* C17: every send on an enabled chat-bot backend makes one send-text
\* operation, uploads the clip exactly when its path exists on disk, and so
\* returns True only when at least one message went out.
C17_TextSentForEveryIncident ==
    (alert_backend = "telegram" /\ enabled /\ delivered > 0) =>
        /\ calls.text = 1
        /\ calls.upload > 0 <=> IncidentClipExists
        /\ backend_ret = "True" => calls.text + calls.upload >= 1

\* The first attempt of the last upload that succeeded, 0 when none did.
FirstSuccess ==
    IF \E i \in 1..UploadAttempts : upload_outs[i]
    THEN CHOOSE i \in 1..UploadAttempts :
            upload_outs[i] /\ \A j \in 1..(i - 1) : ~upload_outs[j]
    ELSE 0

\* C18: an upload makes at most 3 send_video calls; it stops at the first
\* that succeeds, having slept 2 seconds after each failed one before it;
\* when all three fail it has slept twice and the third failure is raised
\* (send_incident turns it into False).
C18_UploadRetriesBounded ==
    upload_outs # NoOuts =>
        /\ calls.upload \in 1..3
        /\ FirstSuccess # 0 =>
              /\ calls.upload = FirstSuccess
              /\ calls.waited = 2 * (FirstSuccess - 1)
              /\ backend_ret = "True"
        /\ FirstSuccess = 0 =>
              /\ calls.upload = 3
              /\ calls.waited = 2 * 2
              /\ backend_ret = "False"

C18_Witness ==
    /\ alert_backend = "telegram" /\ enabled
    /\ upload_outs = <<FALSE, FALSE, FALSE>>
    /\ calls.upload = 3 /\ calls.waited = 4 /\ backend_ret = "False"

\* ------------------------------------------------------ failed fetches

\* C19: when the clip fetch returned no path (three failed passes, or a test
\* fixture that is not on disk) the event is skipped: no inference, no
\* classification, no routing, no send; the handler has returned with no
\* fault propagated, and the next message is accepted.
C19_FetchFailureSkipsEvent ==
    /\ (calls.fetch = 1 /\ pc # "download" /\ video_path = NoPath) =>
          /\ calls.infer = 0 /\ calls.classify = 0
          /\ calls.route = 0 /\ calls.send = 0
          /\ outcome = "fetch_failed" /\ pc = "idle"
    /\ (outcome = "fetch_failed" /\ delivered < MaxMessages) =>
          ENABLED (\E msg \in Payloads : OnMessage(msg))

C19_Witness ==
    /\ Returned /\ outcome = "fetch_failed" /\ IsTestId(event_id)
    /\ event_data.after.video_path = FixtureMissing
    /\ calls.fetch = 1 /\ calls.infer = 0 /\ delivered < MaxMessages

C21_DownloadYieldsNewTempFile ==
    /\ [][(clip.origin # "download" /\ clip'.origin = "download") =>
            /\ clip'.path \notin fs
            /\ fs' = fs \cup {clip'.path}
            /\ video_path' = clip'.path
            /\ clip'.content = "mp4 bytes"
            /\ PathStartsWith(clip'.path, TmpDir)
            /\ ~PathStartsWith(clip'.path, TestDir)]_vars
    /\ []((Returned /\ clip.origin = "download" /\ outcome = "completed")
             => clip.path \notin fs)

C21_Witness ==
    /\ clip.origin = "download" /\ pc = "inference"
    /\ clip.path = <<TmpDir, 2>> /\ <<TmpDir, 1>> \in fs
    /\ clip.content = "mp4 bytes"

\* C22: for an event id with the test prefix no GET is issued; the fetch
\* returns the payload's path when it is set and on disk, and fails when the
\* path is missing or not on disk.
C22_TestPrefixBypassesNetwork ==
    event_id = "test_evt" =>
        /\ calls.get = 0 /\ calls.sleep = 0
        /\ calls.fetch = 1 =>
             LET p == event_data.after.video_path
             IN  \/ /\ clip.origin = "bypass" /\ clip.path = p /\ p # NoPath
                    /\ pc = "inference" => (p \in fs /\ video_path = p)
                 \/ /\ clip = NoClip /\ video_path = NoPath
                    /\ outcome = "fetch_failed"
                    /\ p = NoPath \/ p \notin fs

C22_Witness ==
    /\ event_id = "test_evt" /\ pc = "inference" /\ calls.get = 0
    /\ clip.origin = "bypass" /\ clip.path = FixtureElsewhere

\* C23: when inference returned None, the classifier and the router are not
\* run and nothing is sent; the handler goes to the cleanup, after which a
\* downloaded clip is off the disk.
C23_NullResultGoesToCleanup ==
    (result.kind = "None" /\ calls.infer = 1 /\ outcome # "exception") =>
        /\ calls.classify = 0 /\ calls.route = 0 /\ calls.send = 0
        /\ pc \in {"cleanup", "idle"}
        /\ pc = "idle" =>
              /\ outcome \in {"completed", "remove_failed"}
              /\ (clip.origin = "download" /\ outcome = "completed")
                    => clip.path \notin fs

C23_Witness ==
    /\ Returned /\ result = NoResult /\ calls.infer = 1 /\ outcome = "completed"
    /\ clip.origin = "download" /\ clip.path \notin fs /\ calls.remove = 1

\* C24: an "end" event whose 'after' holds no id, or an empty one, is
\* dropped: no fetch, GET, inference, routing or send; the handler runs once
\* for it, returns, and accepts the next message.
C24_EventWithoutIdDropped ==
    (IsEnd /\ ~Truthy(event_data.after.id)) =>
        /\ calls.fetch = 0 /\ calls.get = 0 /\ calls.infer = 0
        /\ calls.route = 0 /\ calls.send = 0
        /\ calls.filter <= 1
        /\ pc \in {"should_process", "process_end_event", "idle"}
        /\ (pc = "idle" /\ calls.filter = 1) =>
              /\ outcome \in {"filtered", "no_event_id", "exception"}
              /\ delivered < MaxMessages =>
                    ENABLED (\E msg \in Payloads : OnMessage(msg))

C24_Witness ==
    /\ Returned /\ IsEnd /\ outcome = "no_event_id"
    /\ event_data.after.shape = "dict" /\ event_data.after.id = ""
    /\ calls.filter = 1 /\ calls.fetch = 0

C26_StepOrder ==
    /\ calls.fetch >= 1 => calls.filter = 1
    /\ calls.infer >= 1 => (calls.fetch = 1 /\ video_path # NoPath)
    /\ calls.classify >= 1 => (calls.infer = 1 /\ result.kind = "dict")
    /\ calls.route >= 1 => calls.classify = 1
    /\ calls.remove >= 1 =>
          /\ pc = "idle"
          /\ calls.infer = 1
          /\ calls.classify = 1 => calls.route = 1
    /\ pc \in {"inference", "classify", "send_incident", "cleanup"} =>
          (video_path \in fs /\ calls.remove = 0)

C26_Witness ==
    /\ Returned /\ clip.origin = "download" /\ calls.route = 1 /\ calls.send = 1
    /\ calls.remove = 1 /\ clip.path \notin fs

\* C27: the camera the filter uses is the one of 'after' when 'after' has
\* one, and the one of 'before' otherwise: an event whose 'after' has no
\* camera and whose 'before' names a camera outside a non-empty allow-list is
\* filtered.
C27_BeforeCameraUsedWhenAfterHasNone ==
    (/\ IsEnd /\ calls.filter = 1 /\ enabled_cameras # {}
     /\ event_data.after.shape # "str"
     /\ ~Truthy(event_data.after.camera)
     /\ Truthy(event_data.before.camera)
     /\ event_data.before.camera \notin enabled_cameras)
        => outcome = "filtered"

\* C28: with an empty allow-list the filter lets every "end" event through,
\* whatever its camera, a missing one included.
C28_EmptyAllowListAcceptsAll ==
    (IsEnd /\ enabled_cameras = {} /\ calls.filter = 1) =>
        /\ outcome # "filtered"
        /\ pc # "should_process"

C28_Witness ==
    /\ IsEnd /\ enabled_cameras = {} /\ calls.filter = 1
    /\ ExtractedCamera(event_data) = NONE /\ pc = "process_end_event"

\* C29: with a non-empty allow-list, an "end" event with no camera in
\* 'after' and none in 'before' passes the filter.
C29_MissingCameraNotRejected ==
    (/\ IsEnd /\ enabled_cameras # {} /\ calls.filter = 1
     /\ ~Truthy(event_data.after.camera)
     /\ ~Truthy(event_data.before.camera))
        => (outcome # "filtered" /\ pc # "should_process")

C29_Witness ==
    /\ IsEnd /\ enabled_cameras = {"LPR"} /\ calls.filter = 1
    /\ event_data.after.shape = "dict" /\ event_data.after.camera = NONE
    /\ event_data.before = NoBefore /\ pc = "process_end_event"

\* C30: in a network fetch every failed pass but the last is followed by one
\* wait of 3 seconds and the last by none: the seconds waited are 3 times
\* the failed passes before the current one, and a fetch that gives up has
\* waited twice, 6 seconds, within the 9 the design allows.
C30_FixedBackoff ==
    /\ calls.slept = 3 * calls.sleep
    /\ (pc = "download" /\ ~IsTestId(event_id)) => calls.sleep = calls.get
    /\ clip.origin = "download" => calls.sleep = calls.get - 1
    /\ (outcome = "fetch_failed" /\ ~IsTestId(event_id)) =>
          (calls.get = 3 /\ calls.sleep = 2 /\ calls.slept <= 9)

C30_Witness ==
    /\ Returned /\ outcome = "fetch_failed" /\ ~IsTestId(event_id)
    /\ calls.get = 3 /\ calls.sleep = 2 /\ calls.slept = 6

\* ------------------------------------------ incident-management backend

\* The description the title of the request last POSTed carries, between the
\* prefix of the title and " - Event <id>".
PostedTitleDescription ==
    SubSeq(posted.payload.title,
           Len(TitlePrefix(incident.is_suspicious)) + 1,
           Len(posted.payload.title) - Len(TitleSuffix(incident.event_id)))

\* Severity and category follow the suspicious flag.
PostedSeverityFollowsFlag ==
    /\ incident.is_suspicious =>
          posted.payload.severity = "critical"
          /\ posted.payload.roomPrefix = "security-alert"
    /\ ~incident.is_suspicious =>
          posted.payload.severity = "info"
          /\ posted.payload.roomPrefix = "normal-activity"

\* C31 as stated: the title carries the whole decorated description when it
\* has at most 100 characters and otherwise its first 100 characters followed
\* by the ellipsis marker; severity and category follow the suspicious flag.
C31_TitleKeepsFirstHundred ==
    posted.made =>
        /\ PostedTitleDescription =
              IF Len(incident.description) <= 100
              THEN incident.description
              ELSE SubSeq(incident.description, 1, 100) \o "..."
        /\ PostedSeverityFollowsFlag

\* C31 as the code has it: the title carries the whole decorated description
\* when it has at most 100 characters; a longer one is cut to its first 97
\* characters followed by "...", 100 characters in all; severity and
\* category are 'critical' and 'security-alert' exactly when the incident is
\* suspicious and 'info' and 'normal-activity' otherwise.
C31_TitleWithinLimit ==
    posted.made =>
        /\ Len(incident.description) <= 100 =>
              PostedTitleDescription = incident.description
        /\ Len(incident.description) > 100 =>
              /\ Len(PostedTitleDescription) = 100
              /\ SubSeq(PostedTitleDescription, 1, 97)
                    = SubSeq(incident.description, 1, 97)
              /\ SubSeq(PostedTitleDescription, 98, 100) = "..."
        /\ PostedSeverityFollowsFlag

C31_Witness ==
    /\ posted.made /\ Len(incident.description) = 101 /\ incident.is_suspicious
    /\ posted.payload.severity = "critical"

\* C32: on an enabled incident-management backend every send makes exactly
\* one POST, and returns False, raising nothing, when the POST raised or was
\* answered with a status other than 200 and 201.
C32_FailedPostReturnsFalse ==
    (alert_backend = "grafana" /\ enabled /\ delivered > 0) =>
        /\ posted.made /\ calls.post = 1
        /\ backend_ret \in {"True", "False"}
        /\ (posted.http.raises \/ posted.http.status \notin {200, 201}) =>
              backend_ret = "False"

C32_Witness ==
    /\ alert_backend = "grafana" /\ enabled /\ delivered = 2
    /\ posted.made /\ posted.http.status = 204 /\ posted.http.json
    /\ backend_ret = "False" /\ calls.post = 1

\* ------------------------------------------------ once per message, faults

\* C34: for one delivered message the clip is fetched at most once,
\* inference runs at most once and the router and the backend are called at
\* most once, whatever failed; only the GETs of the download and the
\* send_video calls of the upload repeat, each at most 3 times.
C34_AtMostOncePerMessage ==
    /\ calls.fetch <= 1 /\ calls.infer <= 1
    /\ calls.route <= 1 /\ calls.send <= 1
    /\ calls.get <= 3 /\ calls.upload <= 3
    /\ (Returned /\ outcome = "exception") => (calls.route = 0 /\ calls.send = 0)
    /\ backend_ret = "False" => (calls.send = 1 /\ pc \in {"cleanup", "idle"})

C34_Witness ==
    /\ Returned /\ calls.fetch = 1 /\ calls.get = 3 /\ calls.infer = 1
    /\ calls.route = 1 /\ calls.send = 1 /\ calls.upload = 3
    /\ backend_ret = "False"

\* C35: an upload of which all 3 attempts failed does not leave the backend
\* as an exception: the send returns False, the router hands that False to
\* the pipeline, and the handler goes on to the cleanup, which removes a
\* downloaded clip.
C35_BackendFaultReturnsFalse ==
    /\ backend_ret \in {"not_called", "True", "False"}
    /\ upload_outs = <<FALSE, FALSE, FALSE>> =>
          /\ backend_ret = "False" /\ ~incident_sent
          /\ pc \in {"cleanup", "idle"}
          /\ Returned =>
                /\ outcome \in {"completed", "remove_failed"}
                /\ clip.origin = "download" => calls.remove = 1

C35_Witness ==
    /\ Returned /\ upload_outs = <<FALSE, FALSE, FALSE>> /\ backend_ret = "False"
    /\ outcome = "completed" /\ clip.origin = "download" /\ clip.path \notin fs

\* The payloads on which evaluating the filter raises: 'after' is a string
\* (no .get), or 'after' is empty or missing and 'before' is null.
FilterFaults(payload) ==
    \/ payload.after.shape = "str"
    \/ ~AfterTruthy(payload.after) /\ payload.before.shape = "null"

\* C36: an "end" event on which the filter faults is not filtered: it is
\* handed to _process_end_event; an event whose 'after' names a camera
\* outside a non-empty allow-list is filtered, and no fault occurs on it.
C36_FilterFailsOpen ==
    (IsEnd /\ calls.filter = 1) =>
        /\ FilterFaults(event_data) =>
              (outcome # "filtered" /\ pc # "should_process")
        /\ (/\ event_data.after.shape = "dict"
            /\ Truthy(event_data.after.camera)
            /\ enabled_cameras # {}
            /\ event_data.after.camera \notin enabled_cameras) =>
              /\ outcome = "filtered"
              /\ ~FilterFaults(event_data)
              /\ ~should_process_event(event_data, enabled_cameras).fault

C36_Witness ==
    /\ IsEnd /\ calls.filter = 1 /\ FilterFaults(event_data)
    /\ event_data.after.shape = "str"
    /\ enabled_cameras # {} /\ pc = "process_end_event"

\* -------------------------------------------- transport session, main loop

MaxSessions == 3
MaxConnects == 2

\* main.py line 81: time.sleep(5)
RetryDelay == 5

\* The handler and the backends at rest, with a configuration that lets
\* every message through.
PipelineAtRest ==
    /\ enabled_cameras = {}
    /\ send_all_activities = FALSE
    /\ env_backend = "telegram"
    /\ alert_backend = AlertManagerInit(env_backend)
    /\ telegram_token = "token"
    /\ telegram_chat_id = "chat"
    /\ grafana = NoGrafana
    /\ enabled = validate_config(telegram_token, telegram_chat_id)
    /\ fs = {}
    /\ pc = "idle"
    /\ delivered = 0
    /\ event_data = MalformedPayload
    /\ event_id = NONE
    /\ video_path = NoPath
    /\ attempt = 0
    /\ result = NoResult
    /\ is_suspicious = FALSE
    /\ incident = NoIncident
    /\ incident_sent = FALSE
    /\ backend_ret = "not_called"
    /\ upload_outs = NoOuts
    /\ calls = NoCalls
    /\ clip = NoClip
    /\ outcome = "none"
    /\ prev_faulted = FALSE
    /\ posted = NoPost

\* Everything of the handler but the count of messages.
handler == <<config, posted, fs, pc, event_data, locals, calls, clip, outcome,
             prev_faulted>>

\* No _on_connect call was made in this session.
NoConnect == [n |-> 0, rc |-> 0, ops |-> << >>]

\* The result codes the broker may answer a connection with: accepted, and
\* two refusals (protocol version, not authorised).
ConnectCodes == {0, 1, 5}

\* _on_connect line 68 with every result code taken for success.
ConnectAccepted_any(rc) == TRUE

\* _on_connect line 68: rc == 0
ConnectAccepted(rc) == rc = 0

\* FrigateEventProcessor._on_connect: what it does, in order.  On rc 0 it
\* subscribes and then writes /shared/ready; a failure of the write is
\* caught (line 76) and logged.  On another rc it only logs.
on_connect(rc, write_ok) ==
    IF ConnectAccepted(rc)
    THEN <<"subscribe", IF write_ok THEN "ready" ELSE "write_failed">>
    ELSE << >>

\* run_mqtt_processor after construction (lines 45-61): about to enter the
\* loop, no session yet.
MainInit ==
    /\ PipelineAtRest
    /\ EngineLoaded
    /\ main_pc = "loop"
    /\ pending = "none"
    /\ sessions = << >>
    /\ starts = 0
    /\ slept = 0
    /\ stops = 0
    /\ subscribed = FALSE
    /\ ready = FALSE
    /\ last_connect = NoConnect

\* main.py line 71 with FrigateEventProcessor.start lines 252-255: the call
\* of processor.start() and its connect.  A connect that raises (connection
\* refused) is caught inside start (line 256), which returns.
Start(connected) ==
    /\ main_pc = "loop"
    /\ starts < MaxSessions
    /\ starts' = starts + 1
    /\ last_connect' = NoConnect
    /\ IF connected
       THEN /\ main_pc' = "session"
            /\ sessions' = sessions
       ELSE /\ main_pc' = "finally"
            /\ sessions' = Append(sessions, "connect_refused")
    /\ UNCHANGED <<handler, engine, delivered, pending, slept, stops, subscribed,
                   ready>>

\* paho calls _on_connect with the broker's answer, on the first connection
\* of a session and on every reconnection within it.
OnConnect(rc, write_ok) ==
    /\ main_pc = "session"
    /\ last_connect.n < MaxConnects
    /\ LET ops == on_connect(rc, write_ok)
       IN  /\ last_connect' = [n |-> last_connect.n + 1, rc |-> rc, ops |-> ops]
           /\ subscribed' = (subscribed \/ (Len(ops) > 0 /\ ops[1] = "subscribe"))
           /\ ready' = (ready \/ (Len(ops) > 1 /\ ops[2] = "ready"))
    /\ UNCHANGED <<handler, engine, delivered, main_pc, pending, sessions, starts,
                   slept, stops>>

\* The broker delivers a message of the subscribed topic to _on_message.
Receive ==
    /\ main_pc = "session"
    /\ subscribed
    /\ delivered < MaxMessages
    /\ delivered' = delivered + 1
    /\ UNCHANGED <<handler, engine, transport>>

\* How a processor.start() call that connected may end: loop_forever
\* returns or raises an Exception that start catches (line 256), so that
\* start returns; an exception leaves start; the user interrupts.
SessionEndings == {"start_returned", "start_raised", "keyboard_interrupt"}

\* main.py lines 72-78: processor.start() ends.  A KeyboardInterrupt is
\* answered with processor.stop() and break, an Exception with two prints;
\* in every case the finally clause is next.
SessionEnds(how) ==
    /\ main_pc = "session"
    /\ sessions' = Append(sessions, how)
    /\ subscribed' = FALSE
    /\ IF how = "keyboard_interrupt"
       THEN stops' = stops + 1 /\ pending' = "break"
       ELSE stops' = stops /\ pending' = "none"
    /\ main_pc' = "finally"
    /\ UNCHANGED <<handler, engine, delivered, starts, slept, ready, last_connect>>

\* main.py line 63 with a cap on the passes.
LoopCondition_capped(n) == n < 2

\* main.py line 63: while True
LoopCondition(n) == TRUE

\* main.py lines 79-81: the finally clause, time.sleep(5), and what follows
\* it: the pending break leaves the loop and the function, otherwise the
\* loop goes round.  A KeyboardInterrupt during the sleep leaves
\* run_mqtt_processor as an exception.
Finally(interrupted) ==
    /\ main_pc = "finally"
    /\ pending' = "none"
    /\ IF interrupted
       THEN /\ slept' = slept
            /\ main_pc' = "aborted"
       ELSE /\ slept' = slept + RetryDelay
            /\ main_pc' = IF pending = "break" \/ ~LoopCondition(starts)
                          THEN "returned" ELSE "loop"
    /\ UNCHANGED <<handler, engine, delivered, sessions, starts, stops, subscribed,
                   ready, last_connect>>

MainNext ==
    \/ \E connected \in BOOLEAN : Start(connected)
    \/ \E rc \in ConnectCodes, write_ok \in BOOLEAN : OnConnect(rc, write_ok)
    \/ Receive
    \/ \E how \in SessionEndings : SessionEnds(how)
    \/ \E interrupted \in BOOLEAN : Finally(interrupted)

SpecMain == MainInit /\ [][MainNext]_vars

\* C33: _on_connect writes the sentinel only on rc 0 and only after it has
\* subscribed; on another rc it neither subscribes nor writes; when the
\* write fails the subscription stands and the session goes on receiving.
C33_SentinelOnlyAfterSubscribe ==
    /\ (last_connect.n > 0 /\ last_connect.rc # 0) => last_connect.ops = << >>
    /\ \A i \in 1..Len(last_connect.ops) :
          last_connect.ops[i] \in {"ready", "write_failed"} =>
              /\ last_connect.rc = 0
              /\ i > 1 /\ last_connect.ops[i - 1] = "subscribe"
    /\ (main_pc = "session" /\ last_connect.n > 0 /\ last_connect.rc = 0) =>
          subscribed

C33_Witness ==
    /\ main_pc = "session" /\ last_connect.rc = 0
    /\ last_connect.ops = <<"subscribe", "write_failed">>
    /\ subscribed /\ ~ready /\ delivered = 1

\* The sessions so far that ended in a KeyboardInterrupt.
Interrupted == \E i \in 1..Len(sessions) : sessions[i] = "keyboard_interrupt"

\* C38: every session that ends otherwise than by a KeyboardInterrupt
\* (connection refused, start returning, start raising) is followed by a
\* wait of 5 seconds and another processor.start() on the same processor,
\* however many came before; a KeyboardInterrupt calls processor.stop() once
\* and ends the loop, and start is not called after it.
C38_RestartAfterEveryFailure ==
    /\ main_pc \in {"loop", "session"} =>
          /\ ~Interrupted
          /\ slept = RetryDelay * Len(sessions)
          /\ starts = Len(sessions) + (IF main_pc = "session" THEN 1 ELSE 0)
          /\ stops = 0
    /\ main_pc = "returned" =>
          sessions[Len(sessions)] = "keyboard_interrupt"
    /\ Interrupted =>
          /\ sessions[Len(sessions)] = "keyboard_interrupt"
          /\ main_pc \in {"finally", "returned", "aborted"}
          /\ starts = Len(sessions)
          /\ stops = 1

C38_Witness ==
    /\ main_pc = "returned" /\ starts = 3 /\ stops = 1
    /\ sessions = <<"connect_refused", "start_raised", "keyboard_interrupt">>

\* C39: the 5-second wait is made only before a retry: when the loop has
\* ended through a KeyboardInterrupt the process has waited once per retry
\* and not after processor.stop().
C39_NoWaitOnInterrupt ==
    main_pc = "returned" => slept = RetryDelay * (starts - 1)

\* ------------------------------------------------------ inference engine

MaxCalls == 3

\* What surrounds one call on the engine: whether each from_pretrained call
\* returns, what _extract_frames yields (no frame for a missing or unreadable
\* clip; it may also raise), whether the prompt file and system_prompt.txt
\* can be read, whether the model's generate returns, and the text it
\* answers: with no braces, with braces around something json.loads rejects,
\* or with a JSON object.
Settings ==
    [model_load : BOOLEAN, processor_load : BOOLEAN,
     frames : {"none", "some", "raises"},
     prompt : BOOLEAN, system_prompt : BOOLEAN, generate : BOOLEAN,
     response : {"no_json", "invalid_json", "object"}]

\* LLMInferenceEngine._initialize_model: the attributes and load counts
\* after the call, and whether it raised.  Nothing is done once self.model
\* is set (line 77); otherwise the model is loaded and assigned (lines
\* 143-146) and then the processor (line 148), and a from_pretrained that
\* raises ends the call there.
initialize_model(m, p, n, setting) ==
    IF m # "None"
    THEN [model |-> m, processor |-> p, loads |-> n, raised |-> FALSE]
    ELSE IF ~setting.model_load
    THEN [model |-> m, processor |-> p, loads |-> n, raised |-> TRUE]
    ELSE IF ~setting.processor_load
    THEN [model |-> "loaded", processor |-> p,
          loads |-> [n EXCEPT !.model = @ + 1], raised |-> TRUE]
    ELSE [model |-> "loaded", processor |-> "loaded",
          loads |-> [n EXCEPT !.model = @ + 1, !.processor = @ + 1],
          raised |-> FALSE]

\* run_inference line 273 catching nothing.
inference_catches_nothing(exc) == FALSE

\* run_inference line 273: except Exception
inference_catches(exc) ==
    exc \in {"OSError", "FileNotFoundError", "AttributeError", "RuntimeError",
             "Exception"}

\* What run_inference does with an exception raised in its body: the except
\* clause turns it into {"error": str(e)}.
Raised(exc) == IF inference_catches(exc) THEN "error" ELSE "raise"

\* LLMInferenceEngine.run_inference after _initialize_model, on an engine
\* whose processor attribute is p: "None", "error" (a result with the
\* 'error' key), "parsed" (what json.loads returned), or "raise".
run_inference_body(p, setting) ==
    IF setting.frames = "raises" THEN Raised("RuntimeError")
    ELSE IF setting.frames = "none" THEN "None"
    ELSE IF ~setting.prompt THEN Raised("FileNotFoundError")
    ELSE IF p = "None" THEN Raised("AttributeError")
    ELSE IF ~setting.generate THEN Raised("RuntimeError")
    ELSE IF setting.response = "object" THEN "parsed"
    ELSE "error"

\* LLMInferenceEngine.run_inference
run_inference(m, p, n, setting) ==
    LET init == initialize_model(m, p, n, setting)
    IN  [model |-> init.model, processor |-> init.processor, loads |-> init.loads,
         ret |-> IF init.raised THEN Raised("OSError")
                 ELSE run_inference_body(init.processor, setting)]

\* LLMInferenceEngine.__init__ lines 29-38: nothing loaded.
EngineInit ==
    /\ PipelineAtRest
    /\ SessionRunning
    /\ model = "None"
    /\ processor = "None"
    /\ loads = [model |-> 0, processor |-> 0]
    /\ inference = NoInference
    /\ engine_calls = 0

\* A direct call of _initialize_model (main.py line 38).
InitializeModel(setting) ==
    /\ engine_calls < MaxCalls
    /\ engine_calls' = engine_calls + 1
    /\ LET init == initialize_model(model, processor, loads, setting)
       IN  /\ model' = init.model
           /\ processor' = init.processor
           /\ loads' = init.loads
    /\ UNCHANGED <<handler, delivered, transport, inference>>

\* A call of run_inference.
RunInferenceCall(setting) ==
    /\ engine_calls < MaxCalls
    /\ engine_calls' = engine_calls + 1
    /\ LET r == run_inference(model, processor, loads, setting)
       IN  /\ model' = r.model
           /\ processor' = r.processor
           /\ loads' = r.loads
           /\ inference' = [called |-> TRUE, setting |-> setting, ret |-> r.ret]
    /\ UNCHANGED <<handler, delivered, transport>>

EngineNext ==
    \/ \E setting \in Settings : InitializeModel(setting)
    \/ \E setting \in Settings : RunInferenceCall(setting)

SpecEngine == EngineInit /\ [][EngineNext]_vars

\* C37: run_inference never raises: it returns None, a result carrying
\* 'error', or what json.loads made of the answer; with no frame (a missing
\* or unreadable clip) it returns None; with an unreadable prompt file, a
\* failing frame extraction or a model that faults it returns an error
\* result; it returns a parsed result only when the answer held a JSON
\* object.
C37_InferenceNeverRaises ==
    inference.called =>
        /\ inference.ret \in {"None", "error", "parsed"}
        /\ inference.ret = "parsed" =>
              /\ inference.setting.response = "object"
              /\ inference.setting.frames = "some"
              /\ inference.setting.prompt /\ inference.setting.generate
              /\ model = "loaded" /\ processor = "loaded"
        /\ inference.ret = "None" => inference.setting.frames = "none"
        /\ (\/ inference.setting.frames = "raises"
            \/ model = "None"
            \/ (inference.setting.frames = "some"
                /\ (~inference.setting.prompt \/ ~inference.setting.generate
                    \/ inference.setting.response # "object"
                    \/ processor = "None"))) =>
              inference.ret = "error"

C37_Witness ==
    /\ inference.called /\ inference.ret = "error"
    /\ inference.setting.frames = "some" /\ ~inference.setting.prompt
    /\ model = "loaded" /\ processor = "loaded" /\ engine_calls = 2

\* C40: the model and the processor are unset until the first call; once a
\* call has initialized the engine both are loaded, each exactly once, and
\* stay so over every later call.
C40_LoadedExactlyOnce ==
    /\ engine_calls = 0 => (model = "None" /\ processor = "None")
    /\ loads.model <= 1 /\ loads.processor <= 1
    /\ model # "None" =>
          /\ processor # "None"
          /\ loads = [model |-> 1, processor |-> 1]

====
